---- MODULE Spec2Model ----
(***************************************************************************)
(* DarkRP job generator (src/jobgeneratordarkrp.py): the interactive       *)
(* prompt/validation loop, the composite collectors, the session list and  *)
(* the file writer, as a state machine.                                    *)
(*                                                                         *)
(* A text value is a sequence of one-character strings, so that strip(),   *)
(* lower(), upper(), replace() and int() are computed character by         *)
(* character as Python computes them. Rendered text (the job template, the *)
(* file chunks, the printed messages) is a TLA+ string.                    *)
(*                                                                         *)
(* One step of the machine is one input() call returning: the action reads *)
(* one raw line and runs the code up to the next input() call (or to the   *)
(* end of the process). The user always answers (no EOF, no interrupt) and *)
(* the file system accepts every write.                                    *)
(***************************************************************************)
EXTENDS Integers, Sequences, FiniteSets, TLC

(***************************************************************************)
(* Bounds of the model.                                                    *)
(***************************************************************************)
\* records the session may hold before "create" is no longer offered
MaxJobs == 2
\* entries one run of get_models_input / get_weapons_input may collect
MaxItems == 2
\* the clock runs from second 0 to second MaxTime
MaxTime == 1

(***************************************************************************)
(* Python values.                                                          *)
(***************************************************************************)
\* Optional text: None, or a text.
None == [some |-> FALSE, v |-> <<>>]
Some(s) == [some |-> TRUE, v |-> s]

Whitespace == {" ", "\t", "\n", "\r"}
DigitChars == <<"0", "1", "2", "3", "4", "5", "6", "7", "8", "9">>
Digits == {DigitChars[i] : i \in 1..10}
DigitVal(c) == (CHOOSE i \in 1..10 : DigitChars[i] = c) - 1
LowerChars == <<"a", "b", "c", "d", "e", "f", "g", "h", "i", "j", "k", "l", "m",
                "n", "o", "p", "q", "r", "s", "t", "u", "v", "w", "x", "y", "z">>
UpperChars == <<"A", "B", "C", "D", "E", "F", "G", "H", "I", "J", "K", "L", "M",
                "N", "O", "P", "Q", "R", "S", "T", "U", "V", "W", "X", "Y", "Z">>

\* str.strip(): leading and trailing whitespace removed
RECURSIVE lstrip(_)
lstrip(s) == IF s # <<>> /\ Head(s) \in Whitespace THEN lstrip(Tail(s)) ELSE s
RECURSIVE rstrip(_)
rstrip(s) ==
    IF s # <<>> /\ s[Len(s)] \in Whitespace THEN rstrip(SubSeq(s, 1, Len(s) - 1)) ELSE s
strip(s) == rstrip(lstrip(s))

\* str.lower(), str.upper() on ASCII letters
lower_char(c) ==
    IF \E i \in 1..26 : UpperChars[i] = c
    THEN LowerChars[CHOOSE i \in 1..26 : UpperChars[i] = c] ELSE c
upper_char(c) ==
    IF \E i \in 1..26 : LowerChars[i] = c
    THEN UpperChars[CHOOSE i \in 1..26 : LowerChars[i] = c] ELSE c
lower(s) == [i \in 1..Len(s) |-> lower_char(s[i])]
upper(s) == [i \in 1..Len(s) |-> upper_char(s[i])]

\* str.replace(old, new) for a one-character old and a text new
RECURSIVE replace(_, _, _)
replace(s, old, new) ==
    IF s = <<>> THEN <<>>
    ELSE (IF Head(s) = old THEN new ELSE <<Head(s)>>) \o replace(Tail(s), old, new)

\* The text as a string (what an f-string or a write() puts out).
RECURSIVE Text(_)
Text(s) == IF s = <<>> THEN "" ELSE Head(s) \o Text(Tail(s))

\* int(text): whitespace stripped, an optional sign, then digits, single
\* underscores allowed between digits. Anything else raises ValueError.
IntBody(s) ==
    LET t == strip(s) IN IF t # <<>> /\ Head(t) \in {"+", "-"} THEN Tail(t) ELSE t
IntNegative(s) == LET t == strip(s) IN t # <<>> /\ Head(t) = "-"
RaisesValueError(s) ==
    LET b == IntBody(s) IN
    \/ b = <<>>
    \/ \E i \in 1..Len(b) : b[i] \notin Digits \cup {"_"}
    \/ b[1] = "_"
    \/ b[Len(b)] = "_"
    \/ \E i \in 1..(Len(b) - 1) : b[i] = "_" /\ b[i + 1] = "_"
RECURSIVE DigitsValue(_, _)
DigitsValue(b, acc) ==
    IF b = <<>> THEN acc
    ELSE IF Head(b) = "_" THEN DigitsValue(Tail(b), acc)
    ELSE DigitsValue(Tail(b), 10 * acc + DigitVal(Head(b)))
int(s) == (IF IntNegative(s) THEN -1 ELSE 1) * DigitsValue(IntBody(s), 0)

\* str(n) of an integer, as a text
RECURSIVE NatChars(_)
NatChars(n) ==
    IF n < 10 THEN <<DigitChars[n + 1]>>
    ELSE NatChars(n \div 10) \o <<DigitChars[(n % 10) + 1]>>
str(n) == IF n < 0 THEN <<"-">> \o NatChars(-n) ELSE NatChars(n)
\* {n} inside an f-string
Fmt(n) == Text(str(n))
\* (mutation: str(b) without .lower())
BoolLower_capitalized(b) == IF b THEN "True" ELSE "False"
\* str(b).lower() of a bool
BoolLower(b) == IF b THEN "true" ELSE "false"

(***************************************************************************)
(* Text literals of the source.                                            *)
(***************************************************************************)
TEAM_CUSTOM == <<"T", "E", "A", "M", "_", "C", "U", "S", "T", "O", "M">>
CUSTOM_JOB == <<"C", "u", "s", "t", "o", "m", " ", "J", "o", "b">>
CUSTOM_DESCRIPTION ==
    <<"A", " ", "c", "u", "s", "t", "o", "m", " ", "D", "a", "r", "k", "R", "P", " ", "j", "o", "b">>
REQUIRED_MSG == "This field is required!"
NOT_A_NUMBER_MSG == "Invalid input, please enter a number!"
RangeMsg(min_val, max_val) ==
    "Value must be between " \o Fmt(min_val) \o " and " \o Fmt(max_val) \o "!"
DEFAULT_MODEL == "\"models/player/urban.mdl\""
DEFAULT_WEAPON == "\"weapon_pistol\""

(***************************************************************************)
(* get_user_input: one iteration of its loop on the line `raw`.            *)
(* ret = TRUE: the call returns val. ret = FALSE: "This field is           *)
(* required!" is printed and the same prompt is shown again.               *)
(***************************************************************************)
\* (mutation: a default wins over whatever was typed)
get_user_input_empty_wins(raw, default, required) ==
    LET user_input == strip(raw) IN
    IF default.some
    THEN [ret |-> TRUE, val |-> default]
    ELSE IF user_input # <<>> \/ ~required
    THEN [ret |-> TRUE, val |-> IF user_input # <<>> THEN Some(user_input) ELSE None]
    ELSE [ret |-> FALSE, val |-> None]
\* lines 15-23
get_user_input(raw, default, required) ==
    LET user_input == strip(raw) IN
    IF user_input = <<>> /\ default.some
    THEN [ret |-> TRUE, val |-> default]
    ELSE IF user_input # <<>> \/ ~required
    THEN [ret |-> TRUE, val |-> IF user_input # <<>> THEN Some(user_input) ELSE None]
    ELSE [ret |-> FALSE, val |-> None]

(***************************************************************************)
(* get_validated_int: one iteration of its loop on the line `raw`.         *)
(* ret = TRUE: the call returns val. ret = FALSE: msg is printed and the   *)
(* same prompt is shown again. The source always passes a default, so the  *)
(* value int() receives is a text; a missing default keeps the inner       *)
(* get_user_input loop asking.                                             *)
(***************************************************************************)
\* (mutation: the upper end of the range is not checked)
get_validated_int_no_upper(raw, min_val, max_val, default) ==
    LET r == get_user_input(raw, default, TRUE) IN
    IF ~r.ret THEN [ret |-> FALSE, val |-> 0, msg |-> REQUIRED_MSG]
    ELSE IF RaisesValueError(r.val.v)
    THEN [ret |-> FALSE, val |-> 0, msg |-> NOT_A_NUMBER_MSG]
    ELSE LET value_int == int(r.val.v) IN
         IF min_val <= value_int
         THEN [ret |-> TRUE, val |-> value_int, msg |-> ""]
         ELSE [ret |-> FALSE, val |-> 0, msg |-> RangeMsg(min_val, max_val)]
\* lines 25-36
get_validated_int(raw, min_val, max_val, default) ==
    LET r == get_user_input(raw, default, TRUE) IN
    IF ~r.ret THEN [ret |-> FALSE, val |-> 0, msg |-> REQUIRED_MSG]
    ELSE IF RaisesValueError(r.val.v)
    THEN [ret |-> FALSE, val |-> 0, msg |-> NOT_A_NUMBER_MSG]
    ELSE LET value_int == int(r.val.v) IN
         IF min_val <= value_int /\ value_int <= max_val
         THEN [ret |-> TRUE, val |-> value_int, msg |-> ""]
         ELSE [ret |-> FALSE, val |-> 0, msg |-> RangeMsg(min_val, max_val)]

(***************************************************************************)
(* State.                                                                  *)
(***************************************************************************)
VARIABLES
    pc,        \* the input() call the process is blocked in, or "exit" / "error"
    caller,    \* who called create_job: "main" or "menu"
    inp,       \* the line the last input() call read
    out,       \* the messages printed since that line was read
    jobs,      \* self.jobs
    job,       \* create_job's locals collected so far
    rgb,       \* get_color_input's r, g, b so far
    models,    \* get_models_input's list
    weapons,   \* get_weapons_input's list
    settings,  \* get_spawn_settings' dict
    fs,        \* the files written: file name -> the chunks written to it
    now,       \* the last second datetime.now() was read at
    args,      \* arguments of a collector called on its own
    result     \* what that call returned

vars == <<pc, caller, inp, out, jobs, job, rgb, models, weapons, settings, fs, now,
          args, result>>

NoJob ==
    [team_name |-> <<>>, job_name |-> <<>>, color |-> "", description |-> <<>>,
     models |-> "", weapons |-> "", command |-> <<>>, max_players |-> 0, salary |-> 0,
     has_license |-> FALSE, vote_required |-> FALSE, can_demote |-> FALSE]
NoSettings ==
    [health |-> 0, max_health |-> 0, armor |-> 0, max_armor |-> 0,
     walk_speed |-> 0, run_speed |-> 0, jump_power |-> 0]
NoArgs == [default |-> None, required |-> TRUE, min_val |-> 0, max_val |-> 0]
NoResult == [text |-> None, number |-> 0]
NoFiles == [n \in {} |-> <<>>]

\* DarkRPJobGenerator.__init__ and the state main starts in
Start(at) ==
    /\ pc = at
    /\ caller = "main"
    /\ inp = <<>>
    /\ out = <<>>
    /\ jobs = <<>>
    /\ job = NoJob
    /\ rgb = <<>>
    /\ models = <<>>
    /\ weapons = <<>>
    /\ settings = NoSettings
    /\ fs = NoFiles
    /\ now = 0
    /\ result = NoResult

(***************************************************************************)
(* The input collectors called on their own, on any arguments.             *)
(***************************************************************************)
\* lines the user may type at a prompt of a collector called on its own
InputLines ==
    {<<>>, <<" ">>, <<"y">>, <<" ", "y", " ">>, <<"7">>, <<" ", "7">>, <<"-", "1">>,
     <<"2", "5", "6">>, <<"0", "7">>, <<"a", "b", "c">>, <<"7", "a">>, <<"+">>}
InputDefaults ==
    {None, Some(<<>>), Some(<<"5", "0">>), Some(<<"n">>), Some(<<"3", "0", "0">>)}
InputRanges == {<<0, 255>>, <<1, 7>>, <<-5, 5>>}

InitInput ==
    /\ \/ Start("get_user_input")
       \/ Start("get_validated_int")
    /\ \E d \in InputDefaults, q \in BOOLEAN, mm \in InputRanges :
          args = [default |-> d, required |-> q, min_val |-> mm[1], max_val |-> mm[2]]

call_get_user_input ==
    /\ pc = "get_user_input"
    /\ \E raw \in InputLines :
          LET r == get_user_input(raw, args.default, args.required) IN
          /\ inp' = raw
          /\ IF r.ret
             THEN /\ pc' = "returned"
                  /\ result' = [text |-> r.val, number |-> 0]
                  /\ out' = <<>>
             ELSE /\ out' = <<REQUIRED_MSG>>
                  /\ UNCHANGED <<pc, result>>
    /\ UNCHANGED <<caller, jobs, job, rgb, models, weapons, settings, fs, now, args>>

call_get_validated_int ==
    /\ pc = "get_validated_int"
    /\ \E raw \in InputLines :
          LET r == get_validated_int(raw, args.min_val, args.max_val, args.default) IN
          /\ inp' = raw
          /\ IF r.ret
             THEN /\ pc' = "returned"
                  /\ result' = [text |-> None, number |-> r.val]
                  /\ out' = <<>>
             ELSE /\ out' = <<r.msg>>
                  /\ UNCHANGED <<pc, result>>
    /\ UNCHANGED <<caller, jobs, job, rgb, models, weapons, settings, fs, now, args>>

NextInput == call_get_user_input \/ call_get_validated_int
SpecInput == InitInput /\ [][NextInput]_vars

(***************************************************************************)
(* The program: main, show_menu, create_job and its collectors, save_jobs. *)
(***************************************************************************)
\* the line is read, the process goes on to the prompt `site`
Read(raw, site, msgs) == inp' = raw /\ pc' = site /\ out' = msgs
\* the line is read and refused: msg is printed, the same prompt comes again
Again(raw, msg) == inp' = raw /\ out' = <<msg>> /\ UNCHANGED pc
\* int() raises ValueError, which nothing catches: the process dies
Raise(raw) == inp' = raw /\ pc' = "error" /\ out' = <<"ValueError">>

\* ", ".join(items)
RECURSIVE Join(_)
Join(items) ==
    IF items = <<>> THEN ""
    ELSE IF Len(items) = 1 THEN items[1]
    ELSE items[1] \o ", " \o Join(Tail(items))

\* ---- create_job, lines 107-108: team name, job name
create_job_team_name(R) ==
    /\ pc = "team_name"
    /\ \E raw \in R :
          LET r == get_user_input(raw, Some(TEAM_CUSTOM), TRUE) IN
          IF r.ret
          THEN /\ Read(raw, "job_name", <<>>)
               /\ job' = [job EXCEPT !.team_name = upper(r.val.v)]
          ELSE Again(raw, REQUIRED_MSG) /\ UNCHANGED job
    /\ UNCHANGED <<caller, jobs, rgb, models, weapons, settings, fs, now, args, result>>

create_job_job_name(R) ==
    /\ pc = "job_name"
    /\ \E raw \in R :
          LET r == get_user_input(raw, Some(CUSTOM_JOB), TRUE) IN
          IF r.ret
          THEN /\ Read(raw, "red", <<>>)
               /\ job' = [job EXCEPT !.job_name = r.val.v]
          ELSE Again(raw, REQUIRED_MSG) /\ UNCHANGED job
    /\ UNCHANGED <<caller, jobs, rgb, models, weapons, settings, fs, now, args, result>>

\* ---- get_color_input: the four channels, then "Color(r, g, b, a)"
ColorOrder == <<"red", "green", "blue", "alpha">>
ColorDefault(site) ==
    IF site \in {"red", "green"} THEN <<"5", "0">> ELSE <<"2", "5", "5">>
ColorLiteral(r, g, b, a) ==
    "Color(" \o Fmt(r) \o ", " \o Fmt(g) \o ", " \o Fmt(b) \o ", " \o Fmt(a) \o ")"

get_color_input(R) ==
    /\ pc \in {"red", "green", "blue", "alpha"}
    /\ \E raw \in R :
          LET r == get_validated_int(raw, 0, 255, Some(ColorDefault(pc))) IN
          IF ~r.ret THEN Again(raw, r.msg) /\ UNCHANGED <<rgb, job>>
          ELSE IF pc = "alpha"
          THEN /\ Read(raw, "description", <<>>)
               /\ job' = [job EXCEPT !.color = ColorLiteral(rgb[1], rgb[2], rgb[3], r.val)]
               /\ rgb' = <<>>
          ELSE /\ Read(raw, ColorOrder[Len(rgb) + 2], <<>>)
               /\ rgb' = Append(rgb, r.val)
               /\ UNCHANGED job
    /\ UNCHANGED <<caller, jobs, models, weapons, settings, fs, now, args, result>>

\* ---- create_job, lines 114-115: description
create_job_description(R) ==
    /\ pc = "description"
    /\ \E raw \in R :
          LET r == get_user_input(raw, Some(CUSTOM_DESCRIPTION), TRUE) IN
          IF r.ret
          THEN /\ Read(raw, "model", <<>>)
               /\ job' = [job EXCEPT !.description = replace(r.val.v, "\n", <<"\\", "n">>)]
          ELSE Again(raw, REQUIRED_MSG) /\ UNCHANGED job
    /\ UNCHANGED <<caller, jobs, rgb, models, weapons, settings, fs, now, args, result>>

\* ---- get_models_input
\* lines 62-64: one entry is returned bare, any other number in braces
\* (mutation: braces also around a single entry)
models_literal_always_braces(ms) == "{" \o Join(ms) \o "}"
models_literal(ms) == IF Len(ms) = 1 THEN ms[1] ELSE "{" \o Join(ms) \o "}"

\* line 52-57: the model path prompt
get_models_input_model(R) ==
    /\ pc = "model"
    /\ \E raw \in R :
          LET r == get_user_input(raw, None, FALSE) IN
          IF ~r.ret THEN Again(raw, REQUIRED_MSG) /\ UNCHANGED <<models, job>>
          ELSE IF ~r.val.some
          THEN /\ Read(raw, "weapon", <<>>)
               /\ job' = [job EXCEPT !.models =
                             models_literal(IF models = <<>> THEN <<DEFAULT_MODEL>> ELSE models)]
               /\ models' = <<>>
          ELSE /\ Read(raw, "model_more", <<>>)
               /\ models' = Append(models, "\"" \o Text(r.val.v) \o "\"")
               /\ UNCHANGED job
    /\ UNCHANGED <<caller, jobs, rgb, weapons, settings, fs, now, args, result>>

\* line 59-60: "Add another model? (y/n)"
get_models_input_more(R) ==
    /\ pc = "model_more"
    /\ \E raw \in R :
          LET r == get_user_input(raw, Some(<<"n">>), TRUE) IN
          IF ~r.ret THEN Again(raw, REQUIRED_MSG) /\ UNCHANGED <<models, job>>
          ELSE IF lower(r.val.v) # <<"y">>
          THEN /\ Read(raw, "weapon", <<>>)
               /\ job' = [job EXCEPT !.models = models_literal(models)]
               /\ models' = <<>>
          ELSE /\ Len(models) < MaxItems
               /\ Read(raw, "model", <<>>)
               /\ UNCHANGED <<models, job>>
    /\ UNCHANGED <<caller, jobs, rgb, weapons, settings, fs, now, args, result>>

\* ---- get_weapons_input
\* line 81: always in braces
\* (mutation: a single entry comes back bare, as for models)
weapons_literal_like_models(ws) == IF Len(ws) = 1 THEN ws[1] ELSE "{" \o Join(ws) \o "}"
weapons_literal(ws) == "{" \o Join(ws) \o "}"

get_weapons_input_weapon(R) ==
    /\ pc = "weapon"
    /\ \E raw \in R :
          LET r == get_user_input(raw, None, FALSE) IN
          IF ~r.ret THEN Again(raw, REQUIRED_MSG) /\ UNCHANGED <<weapons, job>>
          ELSE IF ~r.val.some
          THEN /\ Read(raw, "command", <<>>)
               /\ job' = [job EXCEPT !.weapons =
                             weapons_literal(IF weapons = <<>> THEN <<DEFAULT_WEAPON>> ELSE weapons)]
               /\ weapons' = <<>>
          ELSE /\ Read(raw, "weapon_more", <<>>)
               /\ weapons' = Append(weapons, "\"" \o Text(r.val.v) \o "\"")
               /\ UNCHANGED job
    /\ UNCHANGED <<caller, jobs, rgb, models, settings, fs, now, args, result>>

get_weapons_input_more(R) ==
    /\ pc = "weapon_more"
    /\ \E raw \in R :
          LET r == get_user_input(raw, Some(<<"n">>), TRUE) IN
          IF ~r.ret THEN Again(raw, REQUIRED_MSG) /\ UNCHANGED <<weapons, job>>
          ELSE IF lower(r.val.v) # <<"y">>
          THEN /\ Read(raw, "command", <<>>)
               /\ job' = [job EXCEPT !.weapons = weapons_literal(weapons)]
               /\ weapons' = <<>>
          ELSE /\ Len(weapons) < MaxItems
               /\ Read(raw, "weapon", <<>>)
               /\ UNCHANGED <<weapons, job>>
    /\ UNCHANGED <<caller, jobs, rgb, models, settings, fs, now, args, result>>

\* ---- create_job, lines 124-129: command, max players, salary, the three flags
create_job_command(R) ==
    /\ pc = "command"
    /\ \E raw \in R :
          LET r == get_user_input(raw, Some(replace(lower(job.job_name), " ", <<>>)), TRUE) IN
          IF r.ret
          THEN /\ Read(raw, "max_players", <<>>)
               /\ job' = [job EXCEPT !.command = r.val.v]
          ELSE Again(raw, REQUIRED_MSG) /\ UNCHANGED job
    /\ UNCHANGED <<caller, jobs, rgb, models, weapons, settings, fs, now, args, result>>

create_job_max_players(R) ==
    /\ pc = "max_players"
    /\ \E raw \in R :
          LET r == get_user_input(raw, Some(<<"2">>), TRUE) IN
          IF ~r.ret THEN Again(raw, REQUIRED_MSG) /\ UNCHANGED job
          ELSE IF RaisesValueError(r.val.v) THEN Raise(raw) /\ UNCHANGED job
          ELSE /\ Read(raw, "salary", <<>>)
               /\ job' = [job EXCEPT !.max_players = int(r.val.v)]
    /\ UNCHANGED <<caller, jobs, rgb, models, weapons, settings, fs, now, args, result>>

create_job_salary(R) ==
    /\ pc = "salary"
    /\ \E raw \in R :
          LET r == get_user_input(raw, Some(<<"5", "0">>), TRUE) IN
          IF ~r.ret THEN Again(raw, REQUIRED_MSG) /\ UNCHANGED job
          ELSE IF RaisesValueError(r.val.v) THEN Raise(raw) /\ UNCHANGED job
          ELSE /\ Read(raw, "has_license", <<>>)
               /\ job' = [job EXCEPT !.salary = int(r.val.v)]
    /\ UNCHANGED <<caller, jobs, rgb, models, weapons, settings, fs, now, args, result>>

create_job_has_license(R) ==
    /\ pc = "has_license"
    /\ \E raw \in R :
          LET r == get_user_input(raw, Some(<<"y">>), TRUE) IN
          IF r.ret
          THEN /\ Read(raw, "vote_required", <<>>)
               /\ job' = [job EXCEPT !.has_license = (lower(r.val.v) = <<"y">>)]
          ELSE Again(raw, REQUIRED_MSG) /\ UNCHANGED job
    /\ UNCHANGED <<caller, jobs, rgb, models, weapons, settings, fs, now, args, result>>

create_job_vote_required(R) ==
    /\ pc = "vote_required"
    /\ \E raw \in R :
          LET r == get_user_input(raw, Some(<<"n">>), TRUE) IN
          IF r.ret
          THEN /\ Read(raw, "can_demote", <<>>)
               /\ job' = [job EXCEPT !.vote_required = (lower(r.val.v) = <<"y">>)]
          ELSE Again(raw, REQUIRED_MSG) /\ UNCHANGED job
    /\ UNCHANGED <<caller, jobs, rgb, models, weapons, settings, fs, now, args, result>>

create_job_can_demote(R) ==
    /\ pc = "can_demote"
    /\ \E raw \in R :
          LET r == get_user_input(raw, Some(<<"n">>), TRUE) IN
          IF r.ret
          THEN /\ Read(raw, "health", <<>>)
               /\ job' = [job EXCEPT !.can_demote = (lower(r.val.v) = <<"y">>)]
          ELSE Again(raw, REQUIRED_MSG) /\ UNCHANGED job
    /\ UNCHANGED <<caller, jobs, rgb, models, weapons, settings, fs, now, args, result>>

\* ---- create_job, lines 135-157: the job template
job_template(j, s) ==
    Text(j.team_name) \o " = DarkRP.createJob(\"" \o Text(j.job_name) \o "\", {\n"
    \o "    color = " \o j.color \o ",\n"
    \o "    model = " \o j.models \o ",\n"
    \o "    description = [[" \o Text(j.description) \o "]],\n"
    \o "    weapons = " \o j.weapons \o ",\n"
    \o "    command = \"" \o Text(j.command) \o "\",\n"
    \o "    max = " \o Fmt(j.max_players) \o ",\n"
    \o "    salary = " \o Fmt(j.salary) \o ",\n"
    \o "    admin = 0,\n"
    \o "    vote = " \o BoolLower(j.vote_required) \o ",\n"
    \o "    hasLicense = " \o BoolLower(j.has_license) \o ",\n"
    \o "    candemote = " \o BoolLower(j.can_demote) \o ",\n"
    \o "\n"
    \o "    PlayerSpawn = function(ply)\n"
    \o "        ply:SetHealth(" \o Fmt(s.health) \o ")\n"
    \o "        ply:SetMaxHealth(" \o Fmt(s.max_health) \o ")\n"
    \o "        ply:SetArmor(" \o Fmt(s.armor) \o ")\n"
    \o "        ply:SetMaxArmor(" \o Fmt(s.max_armor) \o ")\n"
    \o "        ply:SetWalkSpeed(" \o Fmt(s.walk_speed) \o ")\n"
    \o "        ply:SetRunSpeed(" \o Fmt(s.run_speed) \o ")\n"
    \o "        ply:SetJumpPower(" \o Fmt(s.jump_power) \o ")\n"
    \o "    end\n"
    \o "})"

\* (mutation: the record is made before the spawn settings are collected)
job_record_before_spawn(j, s) ==
    [team_name |-> j.team_name, job_name |-> j.job_name, code |-> job_template(j, NoSettings)]
\* lines 159-163: the record create_job appends, and self.jobs.append
job_record(j, s) ==
    [team_name |-> j.team_name, job_name |-> j.job_name, code |-> job_template(j, s)]
\* (mutation: the record is put in front)
jobs_append_in_front(js, record) == <<record>> \o js
jobs_append(js, record) == Append(js, record)

\* ---- get_spawn_settings, and create_job's end after its last prompt
SpawnOrder ==
    <<"health", "max_health", "armor", "max_armor", "walk_speed", "run_speed", "jump_power">>
SpawnSites == {SpawnOrder[i] : i \in 1..7}
SpawnIndex(site) == CHOOSE i \in 1..7 : SpawnOrder[i] = site
spawn_default(site, s) ==
    CASE site = "health" -> <<"1", "0", "0">>
      [] site = "max_health" -> str(s.health)
      [] site = "armor" -> <<"0">>
      [] site = "max_armor" -> str(s.armor)
      [] site = "walk_speed" -> <<"2", "0", "0">>
      [] site = "run_speed" -> <<"4", "0", "0">>
      [] site = "jump_power" -> <<"2", "0", "0">>

\* the value a spawn prompt stores from the text get_user_input returned
\* (line 93 for max_armor: a text that is empty stands for armor)
\* (mutation: an explicit 0 copies armor too)
spawn_value_zero_copies_armor(site, text, s) ==
    IF site = "max_armor" /\ (text = <<>> \/ int(text) = 0) THEN s.armor ELSE int(text)
spawn_value(site, text, s) ==
    IF site = "max_armor" /\ text = <<>> THEN s.armor ELSE int(text)

get_spawn_settings(R) ==
    /\ pc \in SpawnSites
    /\ \E raw \in R :
          LET r == get_user_input(raw, Some(spawn_default(pc, settings)), TRUE)
              text == r.val.v
              done == [settings EXCEPT ![pc] = spawn_value(pc, text, settings)]
          IN
          IF ~r.ret
          THEN Again(raw, REQUIRED_MSG) /\ UNCHANGED <<settings, jobs, job>>
          ELSE IF ~(pc = "max_armor" /\ text = <<>>) /\ RaisesValueError(text)
          THEN Raise(raw) /\ UNCHANGED <<settings, jobs, job>>
          ELSE IF pc # "jump_power"
          THEN /\ Read(raw, SpawnOrder[SpawnIndex(pc) + 1], <<>>)
               /\ settings' = done
               /\ UNCHANGED <<jobs, job>>
          ELSE /\ Read(raw, IF caller = "main" THEN "main_save" ELSE "menu",
                       <<"GENERATED CODE:", job_template(job, done)>>)
               /\ jobs' = jobs_append(jobs, job_record(job, done))
               /\ job' = NoJob
               /\ settings' = NoSettings
    /\ UNCHANGED <<caller, rgb, models, weapons, fs, now, args, result>>

\* ---- save_jobs
\* datetime.now().strftime(...) at second t of the model's day (t < 60)
TwoDigits(t) == IF t < 10 THEN "0" \o Fmt(t) ELSE Fmt(t)
FileName(t) == "darkrp_jobs_20260101_0000" \o TwoDigits(t) \o ".lua"
HEADER_LINE == "-- DarkRP Jobs generated with Python Script\n"
\* (mutation: the header carries a fixed time instead of the clock's)
CreatedLine_frozen(t) == "-- Created on: 01.01.2026 00:00:00\n\n"
CreatedLine(t) == "-- Created on: 01.01.2026 00:00:" \o TwoDigits(t) \o "\n\n"
NO_JOBS_MSG == "No jobs to save!"
SavedMsg(name) == "Jobs saved to: " \o name

\* (mutation: the blank-line separator after each record is left out)
JobChunks_no_separator(js) == [i \in 1..Len(js) |-> js[i].code]
\* (mutation: only the newest record is written)
JobChunks_last_only(js) == <<js[Len(js)].code, "\n\n">>
\* lines 179-181: the chunks written for the records, in list order
RECURSIVE JobChunks(_)
JobChunks(js) ==
    IF js = <<>> THEN <<>> ELSE <<Head(js).code, "\n\n">> \o JobChunks(Tail(js))
\* lines 176-181: every write() of one save, in order
written(t, js) == <<HEADER_LINE, CreatedLine(t)>> \o JobChunks(js)
\* open(filename, 'w'): the file is created, or truncated if it exists
open_w(files, name, chunks) ==
    [n \in DOMAIN files \cup {name} |-> IF n = name THEN chunks ELSE files[n]]

\* save_jobs called between the caller's prints `before` and `after`. The clock
\* is read once for the file name and again for the header.
\* (mutation: the empty session is written like any other)
save_jobs_writes_empty(before, after) ==
    \E t1 \in now..MaxTime : \E t2 \in t1..MaxTime :
        /\ fs' = open_w(fs, FileName(t1), written(t2, jobs))
        /\ now' = t2
        /\ out' = before \o <<SavedMsg(FileName(t1))>> \o after
save_jobs(before, after) ==
    IF jobs = <<>>
    THEN /\ out' = before \o <<NO_JOBS_MSG>> \o after
         /\ UNCHANGED <<fs, now>>
    ELSE \E t1 \in now..MaxTime : \E t2 \in t1..MaxTime :
            /\ fs' = open_w(fs, FileName(t1), written(t2, jobs))
            /\ now' = t2
            /\ out' = before \o <<SavedMsg(FileName(t1))>> \o after

\* ---- show_menu
\* lines 207-214: "Show all jobs"
listing(js) ==
    IF js = <<>> THEN <<"No jobs created!">>
    ELSE <<"CREATED JOBS:">> \o
         [i \in 1..Len(js) |->
            Fmt(i) \o ". " \o Text(js[i].team_name) \o " - " \o Text(js[i].job_name)]

\* line 220: on "4" the save question is asked of a session that holds records
\* (mutation: the question is never asked)
exit_asks_never(js) == FALSE
\* (mutation: the question is asked of an empty session too)
exit_asks_always(js) == TRUE
exit_asks(js) == js # <<>>

\* lines 197-226: one selection
show_menu(R) ==
    /\ pc = "menu"
    /\ \E raw \in R :
          LET r == get_user_input(raw, Some(<<"1">>), TRUE)
              choice == r.val.v
          IN
          /\ inp' = raw
          /\ IF ~r.ret
             THEN out' = <<REQUIRED_MSG>> /\ UNCHANGED <<pc, caller, fs, now>>
             ELSE IF choice = <<"1">>
             THEN /\ Len(jobs) < MaxJobs
                  /\ pc' = "team_name"
                  /\ caller' = "menu"
                  /\ out' = <<>>
                  /\ UNCHANGED <<fs, now>>
             ELSE IF choice = <<"2">>
             THEN out' = listing(jobs) /\ UNCHANGED <<pc, caller, fs, now>>
             ELSE IF choice = <<"3">>
             THEN save_jobs(<<>>, <<>>) /\ UNCHANGED <<pc, caller>>
             ELSE IF choice = <<"4">>
             THEN IF exit_asks(jobs)
                  THEN pc' = "exit_save" /\ out' = <<>> /\ UNCHANGED <<caller, fs, now>>
                  ELSE pc' = "exit" /\ out' = <<"Goodbye!">> /\ UNCHANGED <<caller, fs, now>>
             ELSE out' = <<"Invalid input!">> /\ UNCHANGED <<pc, caller, fs, now>>
    /\ UNCHANGED <<jobs, job, rgb, models, weapons, settings, args, result>>

\* lines 220-223: "Save jobs before exiting? (y/n)", asked with a session
show_menu_exit(R) ==
    /\ pc = "exit_save"
    /\ \E raw \in R :
          LET r == get_user_input(raw, Some(<<"y">>), TRUE) IN
          /\ inp' = raw
          /\ IF ~r.ret
             THEN out' = <<REQUIRED_MSG>> /\ UNCHANGED <<pc, fs, now>>
             ELSE /\ pc' = "exit"
                  /\ IF lower(r.val.v) = <<"y">>
                     THEN save_jobs(<<>>, <<"Goodbye!">>)
                     ELSE out' = <<"Goodbye!">> /\ UNCHANGED <<fs, now>>
    /\ UNCHANGED <<caller, jobs, job, rgb, models, weapons, settings, args, result>>

\* ---- main
\* line 235: "Do you want to create a job now? (y/n)"
main_create(R) ==
    /\ pc = "main_create"
    /\ \E raw \in R :
          LET r == get_user_input(raw, Some(<<"y">>), TRUE) IN
          IF ~r.ret THEN Again(raw, REQUIRED_MSG)
          ELSE IF lower(r.val.v) = <<"y">>
          THEN Read(raw, "team_name", <<>>)
          ELSE Read(raw, "menu", <<>>)
    /\ caller' = "main"
    /\ UNCHANGED <<jobs, job, rgb, models, weapons, settings, fs, now, args, result>>

\* (mutation: show_menu is entered after the save as well)
main_save_then_menu(R) ==
    /\ pc = "main_save"
    /\ \E raw \in R :
          LET r == get_user_input(raw, Some(<<"y">>), TRUE) IN
          /\ inp' = raw
          /\ IF ~r.ret
             THEN out' = <<REQUIRED_MSG>> /\ UNCHANGED <<pc, fs, now>>
             ELSE IF lower(r.val.v) = <<"y">>
             THEN pc' = "menu" /\ save_jobs(<<>>, <<>>)
             ELSE pc' = "menu" /\ out' = <<>> /\ UNCHANGED <<fs, now>>
    /\ UNCHANGED <<caller, jobs, job, rgb, models, weapons, settings, args, result>>
\* line 242: "Save the job? (y/n)"
main_save(R) ==
    /\ pc = "main_save"
    /\ \E raw \in R :
          LET r == get_user_input(raw, Some(<<"y">>), TRUE) IN
          /\ inp' = raw
          /\ IF ~r.ret
             THEN out' = <<REQUIRED_MSG>> /\ UNCHANGED <<pc, fs, now>>
             ELSE IF lower(r.val.v) = <<"y">>
             THEN pc' = "exit" /\ save_jobs(<<>>, <<>>)
             ELSE pc' = "menu" /\ out' = <<>> /\ UNCHANGED <<fs, now>>
    /\ UNCHANGED <<caller, jobs, job, rgb, models, weapons, settings, args, result>>

(***************************************************************************)
(* The whole program, from main's first prompt.                            *)
(***************************************************************************)
\* lines the user types in a run of the whole program
YesNoLines == {<<>>, <<"Y">>, <<"n">>}
MenuLines == {<<>>, <<"1">>, <<"2">>, <<"3">>, <<" ", "4">>, <<"x">>}
TextLines == {<<>>, <<" ">>}
ColorLines == {<<>>, <<"x">>, <<"2", "5", "6">>}
ItemLines == {<<>>, <<"m">>}
NoMoreLines == {<<>>, <<"n">>}
NumberLines == {<<>>, <<"x">>}
FlagLines == {<<>>}

Init == Start("main_create") /\ args = NoArgs

Next ==
    \/ main_create(YesNoLines)
    \/ main_save(YesNoLines)
    \/ show_menu(MenuLines)
    \/ show_menu_exit(YesNoLines)
    \/ create_job_team_name(TextLines)
    \/ create_job_job_name(TextLines)
    \/ get_color_input(ColorLines)
    \/ create_job_description(TextLines)
    \/ get_models_input_model(ItemLines)
    \/ get_models_input_more(NoMoreLines)
    \/ get_weapons_input_weapon(ItemLines)
    \/ get_weapons_input_more(NoMoreLines)
    \/ create_job_command(TextLines)
    \/ create_job_max_players(NumberLines)
    \/ create_job_salary(NumberLines)
    \/ create_job_has_license(FlagLines)
    \/ create_job_vote_required(FlagLines)
    \/ create_job_can_demote(FlagLines)
    \/ get_spawn_settings(NumberLines)

Spec == Init /\ [][Next]_vars

(***************************************************************************)
(* The two list collectors on their own: create_job has asked team, name,  *)
(* color and description and all were left at their defaults.              *)
(***************************************************************************)
JobBeforeModels ==
    [NoJob EXCEPT !.team_name = TEAM_CUSTOM, !.job_name = CUSTOM_JOB,
                  !.color = "Color(50, 50, 255, 255)", !.description = CUSTOM_DESCRIPTION]
EntryLines == {<<>>, <<" ">>, <<"m">>, <<" ", "k">>, <<"w", "_", "p", " ">>}

InitItems ==
    /\ pc = "model" /\ caller = "main" /\ inp = <<>> /\ out = <<>> /\ jobs = <<>>
    /\ job = JobBeforeModels
    /\ rgb = <<>> /\ models = <<>> /\ weapons = <<>> /\ settings = NoSettings
    /\ fs = NoFiles /\ now = 0 /\ args = NoArgs /\ result = NoResult

NextItems ==
    \/ get_models_input_model(EntryLines)
    \/ get_models_input_more(YesNoLines)
    \/ get_weapons_input_weapon(EntryLines)
    \/ get_weapons_input_more(YesNoLines)

SpecItems == InitItems /\ [][NextItems]_vars

(***************************************************************************)
(* get_spawn_settings on its own: every earlier prompt of create_job was   *)
(* left at its default.                                                    *)
(***************************************************************************)
JobBeforeSpawn ==
    [JobBeforeModels EXCEPT !.models = DEFAULT_MODEL, !.weapons = "{\"weapon_pistol\"}",
                            !.command = <<"c", "u", "s", "t", "o", "m", "j", "o", "b">>,
                            !.max_players = 2, !.salary = 50, !.has_license = TRUE]
SpawnLines == {<<>>, <<"0">>, <<" ", "7">>, <<"-", "3">>, <<"x">>}

InitSpawn ==
    /\ pc = "health" /\ caller = "main" /\ inp = <<>> /\ out = <<>> /\ jobs = <<>>
    /\ job = JobBeforeSpawn
    /\ rgb = <<>> /\ models = <<>> /\ weapons = <<>> /\ settings = NoSettings
    /\ fs = NoFiles /\ now = 0 /\ args = NoArgs /\ result = NoResult

NextSpawn == get_spawn_settings(SpawnLines)

SpecSpawn == InitSpawn /\ [][NextSpawn]_vars

(***************************************************************************)
(* Properties.                                                             *)
(***************************************************************************)
\* what a line stands for once get_user_input has resolved it against a default
Entered(line) == strip(line)
Resolved(line, default) ==
    IF Entered(line) = <<>> THEN default ELSE Some(Entered(line))

\* C1: get_validated_int never returns a non-numeric or out-of-range value.
\* In every step of the call, the response (as get_user_input hands it over: an
\* empty line stands for the default) either parses to an integer v with
\* min_val <= v <= max_val, and then the call returns exactly v, or it does not,
\* and then it is refused: a message is printed, the same prompt is asked again
\* and nothing else changes. Checked under SpecInput.
C1_ValidatedIntOnlyReturnsInRange ==
    [][pc = "get_validated_int" =>
         LET value == Resolved(inp', args.default)
             valid == /\ value.some
                      /\ ~RaisesValueError(value.v)
                      /\ args.min_val <= int(value.v)
                      /\ int(value.v) <= args.max_val
         IN
         /\ valid => /\ pc' = "returned"
                     /\ result'.number = int(value.v)
                     /\ result'.number \in args.min_val..args.max_val
         /\ ~valid => /\ pc' = "get_validated_int"
                      /\ out' # <<>>
                      /\ UNCHANGED <<result, args, jobs, job, fs>>]_vars
\* a line out of range was refused, and the call is still asking
C1_Witness ==
    /\ pc = "get_validated_int"
    /\ inp = <<"2", "5", "6">>
    /\ args.max_val = 255
    /\ out = <<RangeMsg(0, 255)>>

\* C3: get_user_input on an empty (all-whitespace) line returns the default when
\* there is one, asks again when there is none and the field is required, and
\* returns None when there is none and the field is optional; a line that is
\* not empty is returned stripped, whatever default and required are.
\* Checked under SpecInput.
C3_UserInputResolvesEmpty ==
    [][pc = "get_user_input" =>
         LET entered == Entered(inp') IN
         /\ (entered = <<>> /\ args.default.some) =>
                (pc' = "returned" /\ result'.text = args.default)
         /\ (entered = <<>> /\ ~args.default.some /\ args.required) =>
                (pc' = "get_user_input" /\ out' = <<REQUIRED_MSG>> /\ result' = result)
         /\ (entered = <<>> /\ ~args.default.some /\ ~args.required) =>
                (pc' = "returned" /\ result'.text = None)
         /\ entered # <<>> =>
                (pc' = "returned" /\ result'.text = Some(entered))]_vars
\* a padded line came back stripped although a default was there
C3_Witness ==
    /\ pc = "returned"
    /\ inp = <<" ", "y", " ">>
    /\ args.default = Some(<<"n">>)
    /\ result.text = Some(<<"y">>)

\* items separated by ", ", built from the last item backwards
RECURSIVE CommaList(_)
CommaList(items) ==
    IF Len(items) = 1 THEN items[1]
    ELSE CommaList(SubSeq(items, 1, Len(items) - 1)) \o ", " \o items[Len(items)]
Quoted(text) == "\"" \o Text(text) \o "\""

\* C2: a non-numeric response to any numeric prompt of the job-creation flow
\* (the four color channels, max players, salary and the seven spawn settings)
\* leads to the same prompt again and never to an error that ends the flow.
NumericSites ==
    {"red", "green", "blue", "alpha", "max_players", "salary"} \cup SpawnSites
C2_NonNumericIsAskedAgain ==
    [][(pc \in NumericSites /\ Entered(inp') # <<>> /\ RaisesValueError(Entered(inp')))
          => (pc' = pc /\ pc' # "error")]_vars

\* C4: get_models_input returns the default literal "models/player/urban.mdl"
\* as a quoted scalar when no model was entered, the one entered model as a
\* quoted scalar without braces when exactly one was, and a brace-delimited
\* comma list of all entered models, quoted, in entry order, when two or more
\* were. Every non-empty line at the model prompt is one entry, added at the
\* end of the list. Checked under SpecItems.
C4_ModelsRendering ==
    [][/\ (pc = "model" /\ Entered(inp') # <<>>) =>
             (pc' = "model_more" /\ models' = Append(models, Quoted(Entered(inp'))))
       /\ (pc = "model_more" /\ pc' = "model") => models' = models
       /\ (pc \in {"model", "model_more"} /\ pc' = "weapon") =>
             /\ Len(models) = 0 => job'.models = "\"models/player/urban.mdl\""
             /\ Len(models) = 1 => job'.models = models[1]
             /\ Len(models) >= 2 => job'.models = "{" \o CommaList(models) \o "}"]_vars
\* two models were entered and came out as a brace list in entry order
C4_Witness ==
    /\ pc = "weapon"
    /\ job.models = "{\"m\", \"k\"}"

\* C5: get_weapons_input always returns a brace-delimited list, also for one
\* entry, holding the entered weapons quoted in entry order; the one-item list
\* {"weapon_pistol"} stands in exactly when no weapon was entered.
\* Checked under SpecItems.
C5_WeaponsRendering ==
    [][/\ (pc = "weapon" /\ Entered(inp') # <<>>) =>
             (pc' = "weapon_more" /\ weapons' = Append(weapons, Quoted(Entered(inp'))))
       /\ (pc = "weapon_more" /\ pc' = "weapon") => weapons' = weapons
       /\ (pc \in {"weapon", "weapon_more"} /\ pc' = "command") =>
             /\ Len(weapons) = 0 => job'.weapons = "{\"weapon_pistol\"}"
             /\ Len(weapons) >= 1 => job'.weapons = "{" \o CommaList(weapons) \o "}"]_vars
\* a single entered weapon came out in braces
C5_Witness ==
    /\ pc = "command"
    /\ job.weapons = "{\"w_p\"}"

\* C6: in get_spawn_settings, max_armor is armor when the max-armor line is
\* empty and the explicit number otherwise (an explicit 0 included), and
\* max_health is the health just entered when the max-health line is empty and
\* the explicit number otherwise. The line just read is the one answering the
\* prompt before the current one. Checked under SpecSpawn.
C6_MaxDefaultsToBase ==
    /\ pc = "walk_speed" =>
          settings.max_armor = (IF Entered(inp) = <<>> THEN settings.armor ELSE int(inp))
    /\ pc = "armor" =>
          settings.max_health = (IF Entered(inp) = <<>> THEN settings.health ELSE int(inp))
\* an explicit 0 for max armor was kept although armor is 7
C6_Witness ==
    /\ pc = "walk_speed"
    /\ inp = <<"0">>
    /\ settings.armor = 7
    /\ settings.max_armor = 0

\* the prompts of create_job and of the collectors it calls
CreateSites ==
    {"team_name", "job_name", "red", "green", "blue", "alpha", "description", "model",
     "model_more", "weapon", "weapon_more", "command", "max_players", "salary",
     "has_license", "vote_required", "can_demote"} \cup SpawnSites
\* the menu selection a line stands for (an empty line is the default "1")
Choice(line) == IF Entered(line) = <<>> THEN <<"1">> ELSE Entered(line)
\* a y/n line answered 'y', or left at a default of 'y'
SaysYes(line) == Entered(line) = <<>> \/ lower(Entered(line)) = <<"y">>
\* the step is one in which save_jobs runs
SaveStep ==
    \/ pc = "menu" /\ Choice(inp') = <<"3">>
    \/ pc = "exit_save" /\ SaysYes(inp')
    \/ pc = "main_save" /\ SaysYes(inp')

\* C7: self.jobs is append-only. It is empty at start; no step shortens it or
\* changes a record already in it; the step that completes create_job appends
\* exactly one record at the end, built from the fields collected; the list,
\* save, exit and unrecognized selections and the start-up prompts leave it
\* unchanged.
C7_SessionAppendOnly ==
    /\ jobs = <<>>
    /\ [][/\ Len(jobs') >= Len(jobs)
          /\ SubSeq(jobs', 1, Len(jobs)) = jobs
          /\ (pc = "jump_power" /\ pc' \in {"main_save", "menu"}) =>
                /\ Len(jobs') = Len(jobs) + 1
                /\ jobs'[Len(jobs')].team_name = job.team_name
                /\ jobs'[Len(jobs')].job_name = job.job_name
          /\ ~(pc = "jump_power" /\ pc' \in {"main_save", "menu"}) => jobs' = jobs]_vars
\* two different records are held, in the order they were made, after a save
C7_Witness ==
    /\ pc = "menu"
    /\ Len(jobs) = 2
    /\ jobs[1].code # jobs[2].code
    /\ fs # NoFiles
    /\ out = <<"CREATED JOBS:", "1. TEAM_CUSTOM - Custom Job", "2. TEAM_CUSTOM - Custom Job">>

\* C8: the menu loop. From the menu, "1" starts create_job, which comes back to
\* the menu; "2" lists and "3" saves and both come back to the menu; "4" leaves
\* the loop for good; anything else prints "Invalid input!" and stays in the
\* menu. Nothing but "4" ends the loop.
C8_MenuStateMachine ==
    [][/\ pc = "menu" =>
             /\ Choice(inp') = <<"1">> => (pc' = "team_name" /\ caller' = "menu")
             /\ Choice(inp') = <<"2">> => (pc' = "menu" /\ out' = listing(jobs))
             /\ Choice(inp') = <<"3">> => (pc' = "menu" /\ out' # <<>>)
             /\ Choice(inp') = <<"4">> => pc' \in {"exit_save", "exit"}
             /\ Choice(inp') \notin {<<"1">>, <<"2">>, <<"3">>, <<"4">>} =>
                   (pc' = "menu" /\ out' = <<"Invalid input!">>)
       /\ (pc \in CreateSites /\ caller = "menu") => pc' \in CreateSites \cup {"menu"}
       /\ pc = "exit_save" => pc' = "exit"
       /\ pc # "exit"]_vars

\* C8 without the flow ending in an uncaught error: what the code does keep.
C8_MenuStateMachineButErrors ==
    [][/\ pc = "menu" =>
             /\ Choice(inp') = <<"1">> => (pc' = "team_name" /\ caller' = "menu")
             /\ Choice(inp') = <<"2">> => (pc' = "menu" /\ out' = listing(jobs))
             /\ Choice(inp') = <<"3">> => (pc' = "menu" /\ out' # <<>>)
             /\ Choice(inp') = <<"4">> => pc' \in {"exit_save", "exit"}
             /\ Choice(inp') \notin {<<"1">>, <<"2">>, <<"3">>, <<"4">>} =>
                   (pc' = "menu" /\ out' = <<"Invalid input!">>)
       /\ (pc \in CreateSites /\ caller = "menu") =>
             pc' \in CreateSites \cup {"menu", "error"}
       /\ pc = "exit_save" => pc' = "exit"
       /\ pc \notin {"exit", "error"}]_vars

\* C9: on "4" the save question is asked exactly when the session holds a
\* record; save_jobs then runs exactly when the answer is 'y' or the default;
\* with an empty session the loop ends at once, nothing asked, nothing saved.
C9_ExitAsksToSave ==
    [][/\ (pc = "menu" /\ Choice(inp') = <<"4">>) =>
             /\ (jobs # <<>>) <=> (pc' = "exit_save")
             /\ jobs = <<>> => (pc' = "exit" /\ out' = <<"Goodbye!">>)
             /\ UNCHANGED <<fs, now, jobs>>
       /\ pc = "exit_save" =>
             /\ pc' = "exit"
             /\ jobs # <<>>
             /\ SaysYes(inp') =>
                   \E name \in DOMAIN fs' :
                      /\ out' = <<SavedMsg(name), "Goodbye!">>
                      /\ SubSeq(fs'[name], 3, Len(fs'[name])) = JobChunks(jobs)
             /\ ~SaysYes(inp') => (out' = <<"Goodbye!">> /\ UNCHANGED <<fs, now>>)]_vars
\* the process ended through the save question, answered yes
C9_Witness ==
    /\ pc = "exit"
    /\ inp = <<"Y">>
    /\ jobs # <<>>
    /\ Len(out) = 2
    /\ out[2] = "Goodbye!"

\* C10: save_jobs on an empty session prints its notice, writes no file and
\* leaves the session as it is, in every step that runs it (menu "3", the exit
\* question, the start-up question).
C10_SaveOfEmptySessionIsNoOp ==
    [][(SaveStep /\ jobs = <<>>) =>
          /\ NO_JOBS_MSG \in {out'[i] : i \in 1..Len(out')}
          /\ UNCHANGED <<fs, now, jobs>>]_vars
\* "3" was chosen with nothing to save
C10_Witness ==
    /\ pc = "menu"
    /\ inp = <<"3">>
    /\ jobs = <<>>
    /\ out = <<NO_JOBS_MSG>>
    /\ fs = NoFiles

\* C11: save_jobs on a session that holds records writes the fixed first
\* header line, the "Created on" line, and then, for every record in session
\* order, its code followed by the blank-line separator: the body holds each
\* record of the session once, in append order, and nothing else. No other
\* file is touched.
C11_SaveWritesHeaderThenRecords ==
    [][(SaveStep /\ jobs # <<>>) =>
          \E name \in DOMAIN fs' :
             LET f == fs'[name] IN
             /\ SavedMsg(name) \in {out'[i] : i \in 1..Len(out')}
             /\ Len(f) = 2 + 2 * Len(jobs)
             /\ f[1] = "-- DarkRP Jobs generated with Python Script\n"
             /\ \E t \in 0..MaxTime : f[2] = CreatedLine(t)
             /\ \A i \in 1..Len(jobs) :
                   f[2 * i + 1] = jobs[i].code /\ f[2 * i + 2] = "\n\n"
             /\ DOMAIN fs \subseteq DOMAIN fs'
             /\ \A other \in DOMAIN fs' \ {name} :
                   other \in DOMAIN fs /\ fs'[other] = fs[other]]_vars
\* a file holds two different records
C11_Witness ==
    \E name \in DOMAIN fs :
       /\ Len(fs[name]) = 6
       /\ Len(jobs) = 2
       /\ fs[name][3] = jobs[1].code
       /\ fs[name][5] = jobs[2].code
       /\ jobs[1].code # jobs[2].code

\* the record chunks of a file: everything after the two header lines
Body(f) == SubSeq(f, 3, Len(f))

\* C12: saving twice an unchanged session at different times gives two files
\* with the same body and with different names and different headers, and no
\* save changes the session. Two saves are at different times when the later
\* one reads the clock after every reading of the earlier one; they saved the
\* same session when they wrote the same number of records (the session only
\* grows).
C12_SaveTwiceSameBody ==
    /\ [](\A a \in DOMAIN fs, b \in DOMAIN fs :
            \A ta1 \in 0..MaxTime, ta2 \in 0..MaxTime, tb1 \in 0..MaxTime :
               (/\ a = FileName(ta1) /\ fs[a][2] = CreatedLine(ta2)
                /\ b = FileName(tb1)
                /\ tb1 > ta2
                /\ Len(fs[a]) = Len(fs[b]))
               => (/\ Body(fs[a]) = Body(fs[b])
                   /\ a # b
                   /\ fs[a][2] # fs[b][2]
                   /\ fs[a][1] = fs[b][1]))
    /\ [][SaveStep => jobs' = jobs]_vars
\* the same one-record session was saved at second 0 and again at second 1
C12_Witness ==
    /\ {FileName(0), FileName(1)} \subseteq DOMAIN fs
    /\ fs[FileName(0)][2] = CreatedLine(0)
    /\ Len(fs[FileName(0)]) = 4
    /\ Len(fs[FileName(1)]) = 4
    /\ Body(fs[FileName(0)]) = Body(fs[FileName(1)])

(***************************************************************************)
(* create_job on its own, started from main, with the answers of the       *)
(* end-to-end example typed in every way that means the same: team         *)
(* TEAM_TEST, job Tester, default color, the one model                     *)
(* models/player/urban.mdl, the one weapon weapon_pistol, the command left *)
(* at its default, max 2, salary 50, license yes, vote no, demote no and   *)
(* the spawn defaults.                                                     *)
(***************************************************************************)
TEAM_TEST == <<"T", "E", "A", "M", "_", "T", "E", "S", "T">>
TESTER == <<"T", "e", "s", "t", "e", "r">>
ExampleTeamLines == {<<"t", "e", "a", "m", "_", "t", "e", "s", "t">>, TEAM_TEST, <<" ">> \o TEAM_TEST}
ExampleJobLines == {TESTER, TESTER \o <<" ">>, <<" ">> \o TESTER, <<"\t">> \o TESTER}
ExampleColorLines == {<<>>, <<" ">>, <<"x">>, <<"2", "5", "6">>, <<"-", "1">>, <<"2", ".", "5">>}
ExampleModelLines == {<<>>, <<"m", "o", "d", "e", "l", "s", "/", "p", "l", "a", "y", "e", "r", "/", "u", "r", "b", "a", "n", ".", "m", "d", "l">>}
ExampleWeaponLines == {<<>>, <<"w", "e", "a", "p", "o", "n", "_", "p", "i", "s", "t", "o", "l">>}
ExampleNoLines == {<<>>, <<"n">>, <<"N">>, <<" ", "n">>, <<"n", "o">>}
ExampleYesLines == {<<>>, <<"y">>, <<"Y">>, <<"y", " ">>}
ExampleBlankLines == {<<>>, <<" ">>, <<"\t">>, <<" ", " ">>, <<" ", "\t">>}
ExampleMaxLines == {<<>>, <<"2">>, <<" ", "2">>, <<"0", "2">>, <<"+", "2">>}
ExampleSalaryLines == {<<>>, <<"5", "0">>, <<"+", "5", "0">>}

InitExample == Start("team_name") /\ args = NoArgs

NextExample ==
    \/ create_job_team_name(ExampleTeamLines)
    \/ create_job_job_name(ExampleJobLines)
    \/ get_color_input(ExampleColorLines)
    \/ create_job_description(ExampleBlankLines)
    \/ get_models_input_model(ExampleModelLines)
    \/ get_models_input_more(ExampleNoLines)
    \/ get_weapons_input_weapon(ExampleWeaponLines)
    \/ get_weapons_input_more(ExampleNoLines)
    \/ create_job_command(ExampleBlankLines)
    \/ create_job_max_players(ExampleMaxLines)
    \/ create_job_salary(ExampleSalaryLines)
    \/ create_job_has_license(ExampleYesLines)
    \/ create_job_vote_required(ExampleNoLines)
    \/ create_job_can_demote(ExampleNoLines)
    \/ get_spawn_settings(ExampleBlankLines)

SpecExample == InitExample /\ [][NextExample]_vars

\* the block the example must produce, line by line
ExampleCode ==
    "TEAM_TEST = DarkRP.createJob(\"Tester\", {\n"
    \o "    color = Color(50, 50, 255, 255),\n"
    \o "    model = \"models/player/urban.mdl\",\n"
    \o "    description = [[A custom DarkRP job]],\n"
    \o "    weapons = {\"weapon_pistol\"},\n"
    \o "    command = \"tester\",\n"
    \o "    max = 2,\n"
    \o "    salary = 50,\n"
    \o "    admin = 0,\n"
    \o "    vote = false,\n"
    \o "    hasLicense = true,\n"
    \o "    candemote = false,\n"
    \o "\n"
    \o "    PlayerSpawn = function(ply)\n"
    \o "        ply:SetHealth(100)\n"
    \o "        ply:SetMaxHealth(100)\n"
    \o "        ply:SetArmor(0)\n"
    \o "        ply:SetMaxArmor(0)\n"
    \o "        ply:SetWalkSpeed(200)\n"
    \o "        ply:SetRunSpeed(400)\n"
    \o "        ply:SetJumpPower(200)\n"
    \o "    end\n"
    \o "})"

\* C13: with the answers of the end-to-end example, create_job produces the
\* record whose code assigns TEAM_TEST = DarkRP.createJob("Tester", ...) with
\* command = "tester", vote = false, hasLicense = true, candemote = false and
\* the spawn setters in the order health, maxHealth, armor, maxArmor,
\* walkSpeed, runSpeed, jumpPower with 100, 100, 0, 0, 200, 400, 200; the
\* command left at its default is the job name lower-cased. No answer of the
\* example ends the flow in an error. Checked under SpecExample.
C13_EndToEndExample ==
    /\ pc = "max_players" => job.command = <<"t", "e", "s", "t", "e", "r">>
    /\ pc # "error"
    /\ pc = "main_save" =>
          /\ jobs = <<[team_name |-> TEAM_TEST, job_name |-> TESTER, code |-> ExampleCode]>>
          /\ out = <<"GENERATED CODE:", ExampleCode>>
\* the example ran to its end
C13_Witness ==
    /\ pc = "main_save"
    /\ Len(jobs) = 1
    /\ jobs[1].code = ExampleCode
    /\ inp = <<"\t">>


\* C14: main first asks whether to create a job now, before any menu. On yes
\* (or the default) create_job runs once for main, and when it has completed
\* one more question decides: answered yes the program saves and ends without
\* the menu ever being entered, answered otherwise the menu is entered. On no
\* at the first question the menu is entered directly. The menu is entered from
\* these two questions only, and the first question is never asked again.
C14_StartUpPromptThenMenuOrBypass ==
    /\ pc = "main_create"
    /\ [][/\ pc = "main_create" =>
                \/ SaysYes(inp') /\ pc' = "team_name" /\ caller' = "main"
                \/ ~SaysYes(inp') /\ pc' = "menu"
          /\ pc' # "main_create"
          /\ (pc \in CreateSites /\ caller = "main") =>
                pc' \in CreateSites \cup {"main_save", "error"}
          /\ pc' = "main_save" => (pc = "jump_power" /\ caller = "main" /\ Len(jobs') = 1)
          /\ pc = "main_save" =>
                \/ SaysYes(inp') /\ pc' = "exit" /\ caller' = "main"
                \/ ~SaysYes(inp') /\ pc' = "menu"
          /\ (pc' = "menu" /\ pc \notin {"main_create", "main_save"}) =>
                (pc = "menu" \/ caller = "menu")
          /\ pc \notin {"exit", "error"}]_vars
\* the program has ended after the start-up creation and its save, past the menu
C14_Witness ==
    /\ pc = "exit"
    /\ Len(jobs) = 1
    /\ Len(out) = 1
    /\ out[1] # "Goodbye!"
    /\ fs # NoFiles


\* main has not yet entered show_menu nor ended
StartUp == pc \in {"main_create", "main_save"} \/ (pc \in CreateSites /\ caller = "main")
\* the file a save of the one start-up record writes
StartUpSaved ==
    /\ Len(jobs') = 1
    /\ jobs' = jobs
    /\ \E name \in DOMAIN fs' : Body(fs'[name]) = <<jobs[1].code, "\n\n">>

\* C15: main ends without show_menu exactly when the start-up creation was
\* accepted and "Save the job?" was answered yes (or left at its default), and
\* then the session holds exactly one record and save_jobs has written it; in
\* every other case show_menu is entered. Step by step: until the menu is
\* entered, main either goes on with the start-up flow, or enters the menu
\* (on a declined creation or a declined save), or ends from "Save the job?"
\* answered yes with the one record written. Nothing else ends the start-up.
C15_BypassIffSavedAtStartUp ==
    [][StartUp =>
          /\ \/ StartUp'
             \/ pc' = "menu" /\ pc = "main_create" /\ ~SaysYes(inp')
             \/ pc' = "menu" /\ pc = "main_save" /\ ~SaysYes(inp')
             \/ pc' = "exit" /\ pc = "main_save" /\ SaysYes(inp') /\ StartUpSaved
          /\ pc = "main_create" => (SaysYes(inp') <=> pc' = "team_name")
          /\ pc = "main_save" => (SaysYes(inp') <=> pc' = "exit")]_vars

\* C15 without the start-up creation ending in an uncaught error: what the
\* code does keep.
C15_BypassIffSavedAtStartUpButErrors ==
    [][StartUp =>
          /\ \/ StartUp'
             \/ pc' = "error" /\ pc \in NumericSites
             \/ pc' = "menu" /\ pc = "main_create" /\ ~SaysYes(inp')
             \/ pc' = "menu" /\ pc = "main_save" /\ ~SaysYes(inp')
             \/ pc' = "exit" /\ pc = "main_save" /\ SaysYes(inp') /\ StartUpSaved
          /\ pc = "main_create" => (SaysYes(inp') <=> pc' = "team_name")
          /\ pc = "main_save" => (SaysYes(inp') <=> pc' = "exit")]_vars


\* C16: the program never ends normally with records in the session unless the
\* step that ends it is a save prompt ("Save the job?" of main or "Save jobs
\* before exiting?" of the menu) that either was answered yes, and then
\* save_jobs wrote every record of the session to a file, or was answered
\* otherwise, and then nothing is written. That prompt comes after the last
\* record was appended: the ending step appends nothing, and the prompt is
\* reached only from the completed start-up creation or from the menu, never
\* from inside create_job. The menu's "4" ends the program at once only when
\* the session is empty.
C16_NoExitWithoutSaveOrDecline ==
    [][/\ (pc' = "exit" /\ jobs' # <<>>) =>
             /\ pc \in {"main_save", "exit_save"}
             /\ jobs' = jobs
             /\ SaysYes(inp') =>
                   \E name \in DOMAIN fs' :
                      /\ SavedMsg(name) \in {out'[i] : i \in 1..Len(out')}
                      /\ Body(fs'[name]) = JobChunks(jobs')
             /\ ~SaysYes(inp') => fs' = fs
       /\ (pc' = "exit" /\ pc = "menu") => (jobs = <<>> /\ Choice(inp') = <<"4">>)
       /\ pc' = "exit_save" => (pc = "menu" /\ jobs' = jobs)
       /\ pc \in {"main_save", "exit_save"} => (pc' \in {"exit", "menu"} /\ jobs' = jobs)]_vars
\* the program has ended from the menu with two records, the save declined
C16_Witness ==
    /\ pc = "exit"
    /\ Len(jobs) = 2
    /\ inp = <<"n">>
    /\ out = <<"Goodbye!">>


\* sequence a is the beginning of sequence b
IsPrefix(a, b) == Len(a) <= Len(b) /\ SubSeq(b, 1, Len(a)) = a
\* body b holds the first k records of js, each followed by its separator
HoldsFirst(b, js, k) ==
    /\ Len(b) = 2 * k
    /\ \A i \in 1..k : b[2 * i - 1] = js[i].code /\ b[2 * i] = "\n\n"

\* C17: every save writes the whole session. The body a save writes holds every
\* record of the session from the first on; every file an earlier save of the
\* run has left has a body that is a beginning of it, and the new body is
\* longer than that one exactly when the session has grown since, which it
\* does by one record in the step that completes create_job and in no other
\* step. At any time, each file holds the first k records of the session for
\* some k >= 1.
C17_EverySaveWritesWholeSession ==
    /\ [](\A name \in DOMAIN fs :
             \E k \in 1..Len(jobs) : HoldsFirst(Body(fs[name]), jobs, k))
    /\ [][/\ (SaveStep /\ jobs # <<>>) =>
                \E name \in DOMAIN fs' :
                   /\ SavedMsg(name) \in {out'[i] : i \in 1..Len(out')}
                   /\ HoldsFirst(Body(fs'[name]), jobs, Len(jobs))
                   /\ \A old \in DOMAIN fs :
                         /\ IsPrefix(Body(fs[old]), Body(fs'[name]))
                         /\ Len(Body(fs[old])) < Len(Body(fs'[name]))
                               <=> ~HoldsFirst(Body(fs[old]), jobs, Len(jobs))
          /\ (pc = "jump_power" /\ pc' \in {"main_save", "menu"}) =>
                (Len(jobs') = Len(jobs) + 1 /\ fs' = fs)
          /\ ~(pc = "jump_power" /\ pc' \in {"main_save", "menu"}) => jobs' = jobs
          /\ ~SaveStep => fs' = fs]_vars
\* a save of one record, then a second creation, then a save of both: the
\* first file's body begins the second's
C17_Witness ==
    /\ {FileName(0), FileName(1)} \subseteq DOMAIN fs
    /\ Len(jobs) = 2
    /\ jobs[1].code # jobs[2].code
    /\ Len(Body(fs[FileName(0)])) = 2
    /\ Len(Body(fs[FileName(1)])) = 4
    /\ IsPrefix(Body(fs[FileName(0)]), Body(fs[FileName(1)]))


\* the prompts of create_job in the order of the code; the two prompts of the
\* models loop share a stage, and so do the two of the weapons loop
CreateStages ==
    <<{"team_name"}, {"job_name"}, {"red"}, {"green"}, {"blue"}, {"alpha"},
      {"description"}, {"model", "model_more"}, {"weapon", "weapon_more"}, {"command"},
      {"max_players"}, {"salary"}, {"has_license"}, {"vote_required"}, {"can_demote"},
      {"health"}, {"max_health"}, {"armor"}, {"max_armor"}, {"walk_speed"},
      {"run_speed"}, {"jump_power"}>>
Stage(site) == CHOOSE i \in 1..Len(CreateStages) : site \in CreateStages[i]

\* C18: create_job appends its record only as its final step. The flow starts
\* at the team name with the session untouched and passes the prompts stage by
\* stage in the order team, name, color, description, models, weapons, command,
\* max players, salary, the three booleans, the seven spawn settings; no step
\* that stays in the flow and no step that aborts it with an error changes the
\* session, and nothing runs after the abort. The one step that leaves the flow
\* normally is the answer to the last prompt, and it appends exactly one record,
\* rendered from all the fields collected. A flow started by main that is in
\* progress or aborted has the session it started with: the empty one.
C18_AppendOnlyAsFinalStep ==
    /\ []((caller = "main" /\ pc \in CreateSites \cup {"error"}) => jobs = <<>>)
    /\ [][/\ pc \in CreateSites =>
                /\ pc' \in CreateSites =>
                      (jobs' = jobs /\ Stage(pc') \in {Stage(pc), Stage(pc) + 1})
                /\ pc' = "error" => jobs' = jobs
                /\ pc' \notin CreateSites \cup {"error"} =>
                      /\ pc = "jump_power"
                      /\ LET text == Resolved(inp', Some(<<"2", "0", "0">>)).v
                             all == [settings EXCEPT !.jump_power = int(text)]
                         IN jobs' = Append(jobs, [team_name |-> job.team_name,
                                                  job_name |-> job.job_name,
                                                  code |-> job_template(job, all)])
          /\ (pc' \in CreateSites /\ pc \notin CreateSites) =>
                (pc' = "team_name" /\ jobs' = jobs)
          /\ pc # "error"]_vars
\* a creation started from the menu was aborted by an error; the record made
\* before it is all the session holds
C18_Witness ==
    /\ pc = "error"
    /\ caller = "menu"
    /\ Len(jobs) = 1
    /\ job # NoJob

====
